---- MODULE Spec2Model ----
(***************************************************************************)
(* Model of the munchies command-line dispatch framework: CommandSpec,     *)
(* CommandRunner (addCommands, run and its overridable hooks),             *)
(* NamedCommand and the error classes.                                     *)
(*                                                                         *)
(* A JavaScript string is a sequence of one-character strings.  A literal  *)
(* piece of text that the program only concatenates (never inspects) may  *)
(* be written as a single element holding the whole literal.              *)
(***************************************************************************)
EXTENDS Integers, Sequences, FiniteSets, TLC

\* ------------------------------------------------------------------ bounds
MaxArgv == 3    \* longest argument vector handed to run
MaxGroup == 2   \* longest group handed to addCommands
MaxMerges == 3  \* most contributions merged into one configuration
MaxNullCalls == 2  \* calls of nextNonOptionArg made on an emptied list
MaxSyntax == 3  \* longest syntax string handed to the CommandSpec constructor

\* ----------------------------------------------------------------- strings
Lower(ch) ==
    CASE ch = "A" -> "a" [] ch = "B" -> "b" [] ch = "C" -> "c"
      [] ch = "O" -> "o" [] OTHER -> ch

Upper(ch) ==
    CASE ch = "a" -> "A" [] ch = "b" -> "B" [] ch = "c" -> "C"
      [] ch = "o" -> "O" [] OTHER -> ch

toLowerCase_asIs(s) == s

toLowerCase(s) == [i \in 1..Len(s) |-> Lower(s[i])]

toUpperCase(s) == [i \in 1..Len(s) |-> Upper(s[i])]

\* s[0] of JavaScript: the first character, or "undefined" for the empty string
FirstChar(s) == IF Len(s) = 0 THEN "undefined" ELSE s[1]

\* ------------------------------------------------------------------ errors
NoError == [kind |-> "none", message |-> <<>>]

GenericError(message) == [kind |-> "Error", message |-> message]

CommandError(message) == [kind |-> "CommandError", message |-> message]

CommandUsageError(message) == [kind |-> "CommandUsageError", message |-> message]

UnexpectedArgError(arg) ==
    [kind |-> "UnexpectedArgError",
     message |-> <<"UnexpectedArgument: \"">> \o arg \o <<"\"">>]

IsCommandError_any(err) == TRUE

\* err instanceof CommandError
IsCommandError(err) ==
    err.kind \in {"CommandError", "CommandUsageError", "UnexpectedArgError"}

\* ------------------------------------------------------------- CommandSpec
\* syntax.match(/[^ ]+/): the first maximal run of non-space characters
RECURSIVE TakeNonSpace(_, _)
TakeNonSpace(s, i) ==
    IF i > Len(s) \/ s[i] = " " THEN <<>>
    ELSE <<s[i]>> \o TakeNonSpace(s, i + 1)

RECURSIVE SkipSpace(_, _)
SkipSpace(s, i) ==
    IF i > Len(s) THEN 0
    ELSE IF s[i] = " " THEN SkipSpace(s, i + 1) ELSE i

FirstMatch_fromStart(syntax) == TakeNonSpace(syntax, 1)

FirstMatch(syntax) ==
    LET i == SkipSpace(syntax, 1)
    IN  IF i = 0 THEN <<>> ELSE TakeNonSpace(syntax, i)

NoSpec ==
    [_name |-> <<>>, _normName |-> <<>>, _syntax |-> <<>>, _summary |-> <<>>,
     _firstOfGroup |-> FALSE]

\* new CommandSpec(syntax, summary): either throws or yields the object
CommandSpecCtor(syntax, summary) ==
    LET matches == FirstMatch(syntax)
    IN  IF matches = <<>>
        THEN [threw |-> TRUE,
              error |-> GenericError(<<"'">> \o syntax \o <<"' is missing a command name">>),
              spec |-> NoSpec]
        ELSE IF FirstChar(matches) = "-"
        THEN [threw |-> TRUE,
              error |-> GenericError(<<"Command name '">> \o matches
                                        \o <<" cannot start with a dash">>),
              spec |-> NoSpec]
        ELSE [threw |-> FALSE,
              error |-> NoError,
              spec |-> [_name |-> matches,
                        _normName |-> toLowerCase(matches),
                        _syntax |-> syntax,
                        _summary |-> summary,
                        _firstOfGroup |-> FALSE]]

\* syntax strings a program may hand to the constructor
Syntaxes ==
    { <<"A", " ", "<x>">>,     \* "A <x>"
      <<"a">>,                 \* "a"
      <<" ", "B">>,            \* " B"
      <<"-", "c">>,            \* "-c"
      <<" ">> }                \* " "

Summary == <<"Says hello back to you">>

\* the spec objects that exist: those whose construction did not throw
ConstructedSpecs ==
    { CommandSpecCtor(s, Summary).spec :
        s \in { t \in Syntaxes : ~CommandSpecCtor(t, Summary).threw } }

\* ---------------------------------------------------- option configuration
\* A minimist configuration object.  has is the set of keys the object
\* owns; alias and default are maps written as sets of <<key, value>>
\* pairs; boolean and string are arrays of option names (a single name
\* given as a scalar is the array holding it: addOptions appends either).
EmptyOpts ==
    [has |-> {}, alias |-> {}, boolean |-> <<>>, default |-> {},
     string |-> <<>>, other |-> {}]

\* Object.assign(target, source) on maps
ObjectAssign(target, source) ==
    { p \in target : ~(\E q \in source : q[1] = p[1]) } \cup source

ConcatNames_replace(names, value) == value

\* boolNames.concat(value) / boolNames.push(value), and the same for the
\* string names: the names of value follow those already held
ConcatNames(names, value) == names \o value

\* CommandUtil.addOptions(toOptions, fromOptions): the merged toOptions
\* and fromOptions as the call leaves it, or threw when a member of
\* toOptions it relies on is undefined
CommandUtil_addOptions(toOptions, fromOptions) ==
    LET aliasStep ==
            IF "alias" \in fromOptions.has
            THEN ObjectAssign(toOptions.alias, fromOptions.alias)
            ELSE toOptions.alias
        booleanStep ==
            IF "boolean" \in fromOptions.has
            THEN ConcatNames(toOptions.boolean, fromOptions.boolean)
            ELSE toOptions.boolean
        defaultStep ==
            IF "default" \in fromOptions.has
            THEN ObjectAssign(toOptions.default, fromOptions.default)
            ELSE toOptions.default
        stringStep ==
            IF "string" \in fromOptions.has
            THEN ConcatNames(toOptions.string, fromOptions.string)
            ELSE toOptions.string
        \* the default: branch assigns the value back to fromOptions[key]
        otherStep == toOptions.other
        created == (fromOptions.has \cap {"default", "string"})
    IN  [threw |-> \/ ("alias" \in fromOptions.has /\ "alias" \notin toOptions.has)
                   \/ ("boolean" \in fromOptions.has /\ "boolean" \notin toOptions.has),
         to |-> [has |-> toOptions.has \cup created,
                 alias |-> aliasStep,
                 boolean |-> booleanStep,
                 default |-> defaultStep,
                 string |-> stringStep,
                 other |-> otherStep],
         \* fromOptions[key] = value stores the value it just read
         from |-> fromOptions]

nextNonOptionArg_pop(positionals) ==
    IF Len(positionals) = 0
    THEN [isNull |-> TRUE, value |-> <<>>, positionals |-> positionals]
    ELSE [isNull |-> FALSE, value |-> positionals[Len(positionals)],
          positionals |-> SubSeq(positionals, 1, Len(positionals) - 1)]

\* CommandUtil.nextNonOptionArg(args): what it returns (null, or a string)
\* and args._ as the call leaves it
nextNonOptionArg(positionals) ==
    IF Len(positionals) = 0
    THEN [isNull |-> TRUE, value |-> <<>>, positionals |-> positionals]
    ELSE [isNull |-> FALSE, value |-> Head(positionals),
          positionals |-> Tail(positionals)]

Key_h == <<"h">>
Key_help == <<"h", "e", "l", "p">>
Key_v == <<"v">>

\* const configOptions = { boolean: ['h'], alias: { h: 'help' } }
BaseConfig ==
    [EmptyOpts EXCEPT !.has = {"boolean", "alias"},
                      !.boolean = <<Key_h>>,
                      !.alias = {<<Key_h, Key_help>>}]

\* --------------------------------------------------------------- minimist
\* The option parser, for argument vectors whose elements are "--", a
\* single-letter short option ("-h"), a plain long option ("--help"), or a
\* token that is not an option.  Values are tagged with their JavaScript
\* type.
BoolVal(b) == [type |-> "boolean", b |-> b, str |-> <<>>]
StrVal(s) == [type |-> "string", b |-> FALSE, str |-> s]
NumVal(s) == [type |-> "number", b |-> FALSE, str |-> s]

Digits == {"0", "1"}

\* isNumber(x) of minimist, on strings of decimal digits
IsNumber(tok) == Len(tok) > 0 /\ \A i \in 1..Len(tok) : tok[i] \in Digits

\* String(Number(tok)) for a string of decimal digits: no leading zeros
RECURSIVE StripZeros(_)
StripZeros(tok) ==
    IF Len(tok) > 1 /\ tok[1] = "0" THEN StripZeros(Tail(tok)) ELSE tok

\* the value minimist stores for a token: a number when it looks like one
Typed(tok) == IF IsNumber(tok) THEN NumVal(StripZeros(tok)) ELSE StrVal(tok)

\* String(value)
StringOf(val) ==
    CASE val.type = "boolean" -> IF val.b THEN <<"true">> ELSE <<"false">>
      [] OTHER -> val.str

\* JavaScript truthiness of a stored value
Truthy(val) ==
    CASE val.type = "boolean" -> val.b
      [] val.type = "number" -> val.str # <<"0">>
      [] OTHER -> val.str # <<>>

SeqToSet(s) == { s[i] : i \in 1..Len(s) }

\* aliases[key] as minimist builds it: the declared alias and its inverse
AliasesOf(opts, key) ==
    { p[2] : p \in { q \in opts.alias : q[1] = key } }
        \cup { p[1] : p \in { q \in opts.alias : q[2] = key } }

IsBool(opts, key) == key \in SeqToSet(opts.boolean)

AliasIsBoolean(opts, key) == \E x \in AliasesOf(opts, key) : IsBool(opts, x)

IsStringOpt(opts, key) ==
    \/ key \in SeqToSet(opts.string)
    \/ \E x \in SeqToSet(opts.string) : key \in AliasesOf(opts, x)

SetKey(vals, key, val) == { p \in vals : p[1] # key } \cup { <<key, val>> }

\* setArg(key, val): stores val under key and under each of its aliases
SetArg(opts, vals, key, val) ==
    LET value == IF val.type = "string" /\ ~IsStringOpt(opts, key)
                 THEN Typed(val.str) ELSE val
        targets == {key} \cup AliasesOf(opts, key)
    IN  { p \in vals : p[1] \notin targets } \cup { <<k, value>> : k \in targets }

IsLongOption(tok) == Len(tok) > 2 /\ tok[1] = "-" /\ tok[2] = "-"

IsShortOption(tok) == Len(tok) = 2 /\ tok[1] = "-" /\ tok[2] # "-"

StartsWithDash(tok) == Len(tok) > 0 /\ tok[1] = "-"

\* /^(-|--)[^-]/.test(tok)
LooksLikeOption(tok) ==
    \/ Len(tok) >= 2 /\ tok[1] = "-" /\ tok[2] # "-"
    \/ Len(tok) >= 3 /\ tok[1] = "-" /\ tok[2] = "-" /\ tok[3] # "-"

IndexOfDashDash(args) ==
    IF \E i \in 1..Len(args) : args[i] = <<"-", "-">>
    THEN CHOOSE i \in 1..Len(args) :
            /\ args[i] = <<"-", "-">>
            /\ \A j \in 1..(i - 1) : args[j] # <<"-", "-">>
    ELSE 0

RECURSIVE MinimistLoop(_, _, _, _)
MinimistLoop(opts, args, i, acc) ==
    IF i > Len(args) THEN acc
    ELSE LET arg == args[i]
             hasNext == i < Len(args)
             next == IF hasNext THEN args[i + 1] ELSE <<>>
             flagVal == LET k == IF IsLongOption(arg) THEN SubSeq(arg, 3, Len(arg))
                                 ELSE SubSeq(arg, 2, 2)
                        IN  IF IsStringOpt(opts, k) THEN StrVal(<<>>) ELSE BoolVal(TRUE)
         IN  IF IsLongOption(arg)
             THEN LET key == SubSeq(arg, 3, Len(arg))
                  IN  IF /\ hasNext /\ ~StartsWithDash(next)
                         /\ ~IsBool(opts, key)
                         /\ ~AliasIsBoolean(opts, key)
                      THEN MinimistLoop(opts, args, i + 2,
                              [acc EXCEPT !.vals = SetArg(opts, @, key, StrVal(next))])
                      ELSE MinimistLoop(opts, args, i + 1,
                              [acc EXCEPT !.vals = SetArg(opts, @, key, flagVal)])
             ELSE IF IsShortOption(arg)
             THEN LET key == SubSeq(arg, 2, 2)
                  IN  IF /\ hasNext /\ next # <<>> /\ ~LooksLikeOption(next)
                         /\ ~IsBool(opts, key)
                         /\ ~AliasIsBoolean(opts, key)
                      THEN MinimistLoop(opts, args, i + 2,
                              [acc EXCEPT !.vals = SetArg(opts, @, key, StrVal(next))])
                      ELSE MinimistLoop(opts, args, i + 1,
                              [acc EXCEPT !.vals = SetArg(opts, @, key, flagVal)])
             ELSE MinimistLoop(opts, args, i + 1,
                      [acc EXCEPT !.positionals = Append(@, Typed(arg))])

\* Minimist(args, opts): vals maps option names to values, positionals (args._) holds the
\* tokens that are not options
Minimist(args, opts) ==
    LET dd == IndexOfDashDash(args)
        flagPart == IF dd = 0 THEN args ELSE SubSeq(args, 1, dd - 1)
        notFlags == IF dd = 0 THEN <<>> ELSE SubSeq(args, dd + 1, Len(args))
        boolKeys == SeqToSet(opts.boolean)
        defaultOf(k) == IF \E p \in opts.default : p[1] = k
                        THEN (CHOOSE p \in opts.default : p[1] = k)[2]
                        ELSE BoolVal(FALSE)
        initial == { <<k, defaultOf(k)>> :
                        k \in boolKeys \cup UNION { AliasesOf(opts, b) : b \in boolKeys } }
        parsed == MinimistLoop(opts, flagPart, 1, [vals |-> initial, positionals |-> <<>>])
        missing == { p \in opts.default : ~(\E q \in parsed.vals : q[1] = p[1]) }
    IN  [vals |-> parsed.vals \cup missing,
         positionals |-> parsed.positionals \o [i \in 1..Len(notFlags) |-> StrVal(notFlags[i])]]

\* args.help
ArgsHelp(args) ==
    /\ \E p \in args.vals : p[1] = Key_help
    /\ Truthy((CHOOSE p \in args.vals : p[1] = Key_help)[2])

\* ------------------------------------------------------------------- help
DEFAULT_WRAP_WIDTH == 80

\* the widths a program may configure; 0 stands for no helpWrapWidth option
WidthOptions == {0, 40}

\* constructor: this.helpWrapWidth = options.helpWrapWidth || DEFAULT_WRAP_WIDTH
ConstructWidth(option) == IF option = 0 THEN DEFAULT_WRAP_WIDTH ELSE option

\* OptionHelp.wrapText(text, width, true): the text, marked with the width
\* it was wrapped at
WrapText(text, width) ==
    IF width = DEFAULT_WRAP_WIDTH THEN <<"[wrap 80:">> \o text \o <<"]">>
    ELSE <<"[wrap other:">> \o text \o <<"]">>

getHelpIntro == <<"This tool supports the following commands:\n">>

getHelpTrailer == <<"\n">>

getHelpSummaryEntry(spec, rightMargin) ==
    LET syntax == SubSeq(spec._syntax, Len(spec._name) + 1, Len(spec._syntax))
        summary == WrapText(<<"  ">> \o spec._summary, rightMargin)
    IN  toUpperCase(spec._name) \o syntax \o <<"\n">> \o summary \o <<"\n">>

RECURSIVE HelpEntries(_, _, _)
HelpEntries(specs, i, rightMargin) ==
    IF i > Len(specs) THEN <<>>
    ELSE (IF specs[i]._firstOfGroup THEN <<"\n">> ELSE <<>>)
            \o getHelpSummaryEntry(specs[i], rightMargin)
            \o HelpEntries(specs, i + 1, rightMargin)

getHelp_noSeparators(specs, rightMargin) ==
    IF Len(specs) = 0 THEN <<"Help is not available.">>
    ELSE getHelpIntro
            \o HelpEntries([i \in 1..Len(specs) |->
                               [specs[i] EXCEPT !._firstOfGroup = FALSE]],
                           1, rightMargin)
            \o getHelpTrailer

\* CommandRunner.getHelp
getHelp(specs, rightMargin) ==
    IF Len(specs) = 0 THEN <<"Help is not available.">>
    ELSE getHelpIntro \o HelpEntries(specs, 1, rightMargin) \o getHelpTrailer

\* ----------------------------------------------------------- addCommands
HasNormName_skipLast(specs, normName) ==
    \E p \in 1..(Len(specs) - 1) : specs[p]._normName = normName

HasNormName(specs, normName) ==
    \E p \in 1..Len(specs) : specs[p]._normName = normName

\* the group.forEach loop of addCommands, from element i on
RECURSIVE AddLoop(_, _, _, _)
AddLoop(specs, group, i, firstOfGroup) ==
    IF i > Len(group)
    THEN [specs |-> specs, threw |-> FALSE, error |-> NoError]
    ELSE IF HasNormName(specs, group[i]._normName)
    THEN [specs |-> specs, threw |-> TRUE,
          error |-> GenericError(<<"duplicate command name '">>
                                    \o group[i]._normName \o <<"'">>)]
    ELSE AddLoop(Append(specs, [group[i] EXCEPT !._firstOfGroup = firstOfGroup]),
                 group, i + 1, FALSE)

addCommands_restart(specs, group) == AddLoop(<<>>, group, 1, TRUE)

addCommands_rollback(specs, group) ==
    LET r == AddLoop(specs, group, 1, TRUE)
    IN  IF r.threw THEN [r EXCEPT !.specs = specs] ELSE r

\* CommandRunner.addCommands(group)
addCommands(specs, group) == AddLoop(specs, group, 1, TRUE)

\* ------------------------------------------------------------------- run
\* One entry of the record of what a call of run did, in order.
Ev(op, who) ==
    [op |-> op, who |-> who, spec |-> 0, argv |-> <<>>, positionals |-> <<>>,
     after |-> <<>>, err |-> NoError, raised |-> FALSE, how |-> "",
     help |-> FALSE, width |-> 0, text |-> <<>>]

Threw(events, err) ==
    [events |-> events, outcome |-> "threw", thrown |-> err, pending |-> FALSE]

\* next(err), where the caller's callback raises cb (NoError: it returns)
CallNext(events, err, cb) ==
    [events |-> Append(events, [Ev("next", "callback") EXCEPT
                                    !.err = err, !.raised = (cb # NoError)]),
     outcome |-> IF cb = NoError THEN "returned" ELSE "threw",
     thrown |-> cb,
     pending |-> FALSE]

\* the commandSpecs.forEach lookup: the last spec whose _normName matches
FindSpec(specs, commandName) ==
    LET hits == { i \in 1..Len(specs) : specs[i]._normName = commandName }
    IN  IF hits = {} THEN 0 ELSE CHOOSE i \in hits : \A j \in hits : j <= i

doDefaultCommand_swapped(specs, events, cb) ==
    IF Len(specs) = 0
    THEN CallNext(events, CommandUsageError(<<"Missing command argument">>), cb)
    ELSE CallNext(events, GenericError(<<"Default command not implemented">>), cb)

\* CommandRunner.doDefaultCommand as the base class defines it
doDefaultCommand(specs, events, cb) ==
    IF Len(specs) > 0
    THEN CallNext(events, CommandUsageError(<<"Missing command argument">>), cb)
    ELSE CallNext(events, GenericError(<<"Default command not implemented">>), cb)

HookFailure == CommandError(<<"failed">>)

\* NamedCommand.addOptions and CommandRunner.addDefaultOptions as the base
\* classes define them: nothing is declared
DefaultAddOptions == [raise |-> NoError, from |-> EmptyOpts]

\* NamedCommand.parseArgs and CommandRunner.parseDefaultArgs as the base
\* classes define them: nothing is taken from args._
DefaultParse == [consume |-> 0, raise |-> NoError]

\* the execution step: command.doCommand or this.doDefaultCommand
Execute(specs, h, events, cmd, positionals) ==
    LET doEv == [Ev(IF cmd # 0 THEN "doCommand" ELSE "doDefaultCommand",
                    IF cmd # 0 THEN "command" ELSE "runner") EXCEPT
                    !.spec = cmd, !.positionals = positionals, !.how = h.do]
        e == Append(events, doEv)
    IN  CASE h.do = "default" -> doDefaultCommand(specs, e, h.cb)
          [] h.do = "callOk" -> CallNext(e, NoError, h.cb)
          [] h.do = "callErr" -> CallNext(e, HookFailure, h.cb)
          [] h.do = "defer" ->
                [events |-> e, outcome |-> "returned", thrown |-> NoError,
                 pending |-> TRUE]
          [] h.do = "raise" ->
                Threw(Append(events, [doEv EXCEPT !.raised = TRUE,
                                         !.err = GenericError(<<"defect">>)]),
                      GenericError(<<"defect">>))
          [] h.do = "twice" ->
                LET first == CallNext(e, NoError, h.cb)
                IN  IF first.outcome = "threw" THEN first
                    ELSE CallNext(first.events, NoError, h.cb)

FirstLeftover_last(positionals) == positionals[Len(positionals)]

\* args._[0], the positional the UnexpectedArgError is built from
FirstLeftover(positionals) == positionals[1]

CatchValidation_rethrow(events, err, cb) == Threw(events, err)

\* catch(err) of the validation step
CatchValidation(events, err, cb) ==
    IF IsCommandError(err) THEN CallNext(events, err, cb)
    ELSE Threw(events, err)

\* what is left of args._ after the hook took its positionals
AfterParse(positionals, consume) ==
    IF consume >= Len(positionals) THEN <<>>
    ELSE SubSeq(positionals, consume + 1, Len(positionals))

Validate_noReturn(specs, h, events, cmd, args) ==
    LET before == [i \in 1..Len(args.positionals) |-> StringOf(args.positionals[i])]
        after == AfterParse(before, h.parse.consume)
        parseEv == [Ev(IF cmd # 0 THEN "parseArgs" ELSE "parseDefaultArgs",
                       IF cmd # 0 THEN "command" ELSE "runner") EXCEPT
                       !.spec = cmd, !.positionals = before, !.after = after,
                       !.err = h.parse.raise,
                       !.raised = (h.parse.raise # NoError),
                       !.how = IF h.parse = DefaultParse
                               THEN "default" ELSE "override"]
        e == Append(events, parseEv)
    IN  IF h.parse.raise # NoError
        THEN CatchValidation(e, h.parse.raise, h.cb)
        ELSE IF Len(after) > 0
        THEN LET r == CallNext(e, UnexpectedArgError(FirstLeftover(after)), h.cb)
             IN  IF r.outcome = "threw"
                 THEN CatchValidation(r.events, r.thrown, h.cb)
                 ELSE Execute(specs, h, r.events, cmd, after)
        ELSE Execute(specs, h, e, cmd, after)

\* the validation step: the try block around parseArgs / parseDefaultArgs
Validate(specs, h, events, cmd, args) ==
    LET before == [i \in 1..Len(args.positionals) |-> StringOf(args.positionals[i])]
        after == AfterParse(before, h.parse.consume)
        parseEv == [Ev(IF cmd # 0 THEN "parseArgs" ELSE "parseDefaultArgs",
                       IF cmd # 0 THEN "command" ELSE "runner") EXCEPT
                       !.spec = cmd, !.positionals = before, !.after = after,
                       !.err = h.parse.raise,
                       !.raised = (h.parse.raise # NoError),
                       !.how = IF h.parse = DefaultParse
                               THEN "default" ELSE "override"]
        e == Append(events, parseEv)
    IN  IF h.parse.raise # NoError
        THEN CatchValidation(e, h.parse.raise, h.cb)
        ELSE IF Len(after) > 0
        THEN LET r == CallNext(e, UnexpectedArgError(FirstLeftover(after)), h.cb)
             IN  IF r.outcome = "threw"
                 THEN CatchValidation(r.events, r.thrown, h.cb)
                 ELSE r
        ELSE Execute(specs, h, e, cmd, after)

ShowHelp_defaultWidth(specs, width, h, events, cmd) ==
    LET text == IF cmd # 0 THEN getHelpSummaryEntry(specs[cmd], DEFAULT_WRAP_WIDTH)
                ELSE getHelp(specs, DEFAULT_WRAP_WIDTH)
        helpEv == [Ev("getHelp", IF cmd # 0 THEN "command" ELSE "runner") EXCEPT
                      !.spec = cmd, !.width = DEFAULT_WRAP_WIDTH, !.text = text]
        writeEv == [Ev("write", "stdout") EXCEPT
                      !.text = WrapText(text, DEFAULT_WRAP_WIDTH),
                      !.width = DEFAULT_WRAP_WIDTH]
    IN  CallNext(events \o <<helpEv, writeEv>>, NoError, h.cb)

\* the help short-circuit
ShowHelp(specs, width, h, events, cmd) ==
    LET text == IF cmd # 0 THEN getHelpSummaryEntry(specs[cmd], width)
                ELSE getHelp(specs, width)
        helpEv == [Ev("getHelp", IF cmd # 0 THEN "command" ELSE "runner") EXCEPT
                      !.spec = cmd, !.width = width, !.text = text]
        writeEv == [Ev("write", "stdout") EXCEPT
                      !.text = WrapText(text, width), !.width = width]
    IN  CallNext(events \o <<helpEv, writeEv>>, NoError, h.cb)

AfterOptions_noHelp(specs, width, h, events, cmd, passed, configOptions) ==
    LET args == Minimist(passed, configOptions)
        e == Append(events, [Ev("Minimist", "parser") EXCEPT
                                !.argv = passed,
                                !.help = ArgsHelp(args),
                                !.positionals = [i \in 1..Len(args.positionals) |->
                                                    StringOf(args.positionals[i])]])
    IN  Validate(specs, h, e, cmd, args)

\* run from the call of Minimist on
AfterOptions(specs, width, h, events, cmd, passed, configOptions) ==
    LET args == Minimist(passed, configOptions)
        e == Append(events, [Ev("Minimist", "parser") EXCEPT
                                !.argv = passed,
                                !.help = ArgsHelp(args),
                                !.positionals = [i \in 1..Len(args.positionals) |->
                                                    StringOf(args.positionals[i])]])
    IN  IF ArgsHelp(args) THEN ShowHelp(specs, width, h, e, cmd)
        ELSE Validate(specs, h, e, cmd, args)

\* the option-declaration step, then the rest of run
DeclareOptions(specs, width, h, events, cmd, passed) ==
    LET optEv == [Ev(IF cmd # 0 THEN "addOptions" ELSE "addDefaultOptions",
                     IF cmd # 0 THEN "command" ELSE "runner") EXCEPT
                     !.spec = cmd, !.err = h.addOptions.raise,
                     !.raised = (h.addOptions.raise # NoError),
                     !.how = IF h.addOptions = DefaultAddOptions
                             THEN "default" ELSE "override"]
        e == Append(events, optEv)
    IN  IF h.addOptions.raise # NoError THEN Threw(e, h.addOptions.raise)
        ELSE AfterOptions(specs, width, h, e, cmd, passed,
                CommandUtil_addOptions(BaseConfig, h.addOptions.from).to)

NamesCommand_anyFirst(argv) == Len(argv) > 0

\* argv.length > 0 && argv[0][0] !== '-'
NamesCommand(argv) == Len(argv) > 0 /\ FirstChar(argv[1]) # "-"

UnrecognizedCommand_noName(commandName) ==
    CommandUsageError(<<"unrecognized command">>)

\* the error for a name that is not registered
UnrecognizedCommand(commandName) ==
    CommandUsageError(<<"unrecognized command '">> \o commandName \o <<"'">>)

run_noInit(specs, width, argv, h) ==
    IF NamesCommand(argv)
    THEN LET commandName == toLowerCase(argv[1])
             cmd == FindSpec(specs, commandName)
             lookupEv == [Ev("lookup", "runner") EXCEPT !.argv = <<commandName>>]
         IN  IF cmd = 0
             THEN CallNext(<<lookupEv>>, UnrecognizedCommand(commandName), h.cb)
             ELSE DeclareOptions(specs, width, h,
                     <<lookupEv,
                       [Ev("createCommand", "spec") EXCEPT !.spec = cmd]>>,
                     cmd, Tail(argv))
    ELSE DeclareOptions(specs, width, h, <<>>, 0, argv)

\* CommandRunner.run(argv, next) with the hooks behaving as h says
run(specs, width, argv, h) ==
    IF NamesCommand(argv)
    THEN LET commandName == toLowerCase(argv[1])
             cmd == FindSpec(specs, commandName)
             lookupEv == [Ev("lookup", "runner") EXCEPT !.argv = <<commandName>>]
         IN  IF cmd = 0
             THEN CallNext(<<lookupEv>>, UnrecognizedCommand(commandName), h.cb)
             ELSE DeclareOptions(specs, width, h,
                     <<lookupEv,
                       [Ev("createCommand", "spec") EXCEPT !.spec = cmd],
                       [Ev("_init", "command") EXCEPT !.spec = cmd]>>,
                     cmd, Tail(argv))
    ELSE DeclareOptions(specs, width, h, <<>>, 0, argv)

\* ------------------------------------------------------------------ inputs
RECURSIVE SeqsUpTo(_, _)
SeqsUpTo(S, n) ==
    IF n <= 0 THEN {<<>>}
    ELSE LET shorter == SeqsUpTo(S, n - 1)
         IN  shorter \cup { Append(q, x) : q \in shorter, x \in S }

\* what argv[0] may be: names in either case, an unknown name, options,
\* a lone dash, the empty string
HeadTokens ==
    { <<"a">>, <<"A">>, <<"b">>, <<"B">>, <<"B", "o">>,
      <<"-", "h">>, <<"-", "-", "h", "e", "l", "p">>, <<"-", "-">>,
      <<"-", "v">>, <<"-">>, <<>> }

\* what the later elements of argv may be
RestTokens ==
    { <<"B", "o">>, <<"-", "h">>, <<"0", "1">> }

Argvs ==
    {<<>>} \cup { <<t>> \o r : t \in HeadTokens, r \in SeqsUpTo(RestTokens, MaxArgv - 1) }

\* what the caller's callback may do when called: return, or raise
CallbackBehaviours ==
    { NoError, GenericError(<<"callback defect">>), CommandError(<<"callback failed">>) }

\* what addOptions / addDefaultOptions may do: declare options (none by
\* default) or raise
AddOptionsBehaviours ==
    { DefaultAddOptions,
      [raise |-> NoError,
       from |-> [EmptyOpts EXCEPT !.has = {"boolean"}, !.boolean = <<Key_v>>]],
      [raise |-> GenericError(<<"defect">>), from |-> EmptyOpts],
      [raise |-> HookFailure, from |-> EmptyOpts],
      [raise |-> CommandUsageError(<<"bad option setup">>), from |-> EmptyOpts] }

ParseFailures ==
    { NoError, CommandUsageError(<<"bad argument">>), HookFailure,
      GenericError(<<"defect">>) }

\* what parseArgs / parseDefaultArgs may do with n positionals: take some
\* of them from the front, then return or raise (the default takes none)
ParseBehaviours(n) == [consume : 0..n, raise : ParseFailures]

\* what doCommand may do; "default" is the base class's doDefaultCommand
DoBehaviours(cmd) ==
    {"callOk", "callErr", "defer", "raise", "twice"}
        \cup (IF cmd = 0 THEN {"default"} ELSE {})

DefaultHooks(cb) ==
    [addOptions |-> DefaultAddOptions,
     parse |-> DefaultParse,
     do |-> "callOk",
     cb |-> cb]

\* contributions a hook may hand to CommandUtil.addOptions as fromOptions
Key_s == <<"s">>
Key_x == <<"x">>
Key_verbose == <<"verbose">>
Key_stopEarly == <<"stopEarly">>

Contributions ==
    { EmptyOpts,
      [EmptyOpts EXCEPT !.has = {"boolean"}, !.boolean = <<Key_v>>],
      [EmptyOpts EXCEPT !.has = {"boolean"}, !.boolean = <<Key_v, Key_x>>],
      [EmptyOpts EXCEPT !.has = {"string"}, !.string = <<Key_s>>],
      [EmptyOpts EXCEPT !.has = {"alias"}, !.alias = {<<Key_h, Key_x>>}],
      [EmptyOpts EXCEPT !.has = {"alias"}, !.alias = {<<Key_v, Key_verbose>>}],
      [EmptyOpts EXCEPT !.has = {"default"}, !.default = {<<Key_s, <<"1">>>>}],
      [EmptyOpts EXCEPT !.has = {"default"}, !.default = {<<Key_s, <<"2">>>>}],
      [EmptyOpts EXCEPT !.has = {"stopEarly"},
                        !.other = {<<Key_stopEarly, <<"true">>>>}],
      [EmptyOpts EXCEPT !.has = {"boolean", "string", "alias"},
                        !.boolean = <<Key_v>>, !.string = <<Key_s>>,
                        !.alias = {<<Key_v, Key_verbose>>}] }

\* what args._ may hold when a hook starts taking arguments from it
PositionalTokens == { <<"B", "o">>, <<"0", "1">>, <<>> }

PositionalLists == SeqsUpTo(PositionalTokens, MaxArgv)

\* the characters of the syntax strings handed to the constructor
SyntaxChars == {" ", "\t", "a", "B", "-"}

SyntaxStrings == SeqsUpTo(SyntaxChars, MaxSyntax)

\* ------------------------------------------------------------------- state
VARIABLES
    commandSpecs,     \* this.commandSpecs
    helpWrapWidth,    \* this.helpWrapWidth
    constructedWith,  \* options.helpWrapWidth handed to the constructor
    groupStarts,      \* positions of the registry that hold the first spec of a group
    last,             \* the call made to the runner and what it did
    merged,           \* a configuration and the addOptions calls made on it
    taking,           \* an args._ and the nextNonOptionArg calls made on it
    built,            \* the last new CommandSpec(...) and what it did
    handlers,         \* the NamedCommand instances created so far
    inflight          \* two invocations of run that may overlap

runnerVars == <<commandSpecs, helpWrapWidth, constructedWith, groupStarts, last>>

utilVars == <<merged, taking, built>>

flightVars == <<handlers, inflight>>

vars ==
    <<commandSpecs, helpWrapWidth, constructedWith, groupStarts, last,
      merged, taking, built, handlers, inflight>>

\* configOptions as run makes it, before any contribution
NoMerge ==
    [count |-> 0, base |-> BaseConfig, before |-> BaseConfig,
     prev |-> EmptyOpts, from |-> EmptyOpts, fromAfter |-> EmptyOpts,
     to |-> BaseConfig, swapped |-> BaseConfig, threw |-> FALSE]

NoneTaken(positionals) ==
    [original |-> positionals, rest |-> positionals, returned |-> <<>>]

NotBuilt ==
    [op |-> "none", syntax |-> <<>>,
     result |-> [threw |-> FALSE, error |-> NoError, spec |-> NoSpec],
     entry |-> <<>>]

\* an invocation of run that has not started
NoFlight ==
    [state |-> "idle", argv |-> <<>>, from |-> EmptyOpts, command |-> 0,
     events |-> <<>>, received |-> <<>>]

FlightIdle ==
    /\ handlers = <<>>
    /\ inflight = [slot \in {1, 2} |-> NoFlight]

UtilIdle ==
    /\ merged = NoMerge
    /\ taking = NoneTaken(<<>>)
    /\ built = NotBuilt
    /\ FlightIdle


NoSelection == [named |-> FALSE, spec |-> 0]

NoCall ==
    [op |-> "none", argv |-> <<>>, group |-> <<>>, before |-> <<>>,
     events |-> <<>>, outcome |-> "none", thrown |-> NoError, pending |-> FALSE,
     again |-> FALSE, first |-> NoSelection]

\* a runner just constructed, without options
RunnerIdle ==
    /\ commandSpecs = <<>>
    /\ constructedWith = 0
    /\ helpWrapWidth = ConstructWidth(constructedWith)
    /\ groupStarts = {}
    /\ last = NoCall

\* new CommandRunner(options)
Init ==
    /\ commandSpecs = <<>>
    /\ constructedWith \in WidthOptions
    /\ helpWrapWidth = ConstructWidth(constructedWith)
    /\ groupStarts = {}
    /\ last = NoCall
    /\ UtilIdle

Groups == SeqsUpTo(ConstructedSpecs, MaxGroup)

\* a call of addCommands(group)
AddCommands ==
    /\ last.op = "none"
    /\ \E group \in Groups :
          LET r == addCommands(commandSpecs, group)
          IN  /\ commandSpecs' = r.specs
              \* the first spec pushed by a call is the first of its group
              /\ groupStarts' = groupStarts \cup
                    (IF Len(r.specs) > Len(commandSpecs)
                     THEN {Len(commandSpecs) + 1} ELSE {})
              /\ last' = [NoCall EXCEPT !.op = "addCommands", !.group = group,
                             !.before = commandSpecs,
                             !.outcome = IF r.threw THEN "threw" ELSE "returned",
                             !.thrown = r.error]
    /\ UNCHANGED <<helpWrapWidth, constructedWith, utilVars, flightVars>>

RunRecord(argv, r) ==
    [NoCall EXCEPT !.op = "run", !.argv = argv, !.events = r.events,
                   !.outcome = r.outcome, !.thrown = r.thrown,
                   !.pending = r.pending]

RegistryAfterRun_dropFirst(specs) ==
    IF Len(specs) = 0 THEN specs ELSE Tail(specs)

\* this.commandSpecs when run has returned or thrown: run assigns neither
\* the registry nor a field of a spec
RegistryAfterRun(specs) == specs

\* the path a run took: named or default, and the spec it selected
SelectionOf(events) ==
    [named |-> Len(events) > 0 /\ events[1].op = "lookup",
     spec |-> IF \E i \in 1..Len(events) : events[i].op = "createCommand"
              THEN events[CHOOSE i \in 1..Len(events) :
                              events[i].op = "createCommand"].spec
              ELSE 0]

Reached(r, ops) == \E i \in 1..Len(r.events) : r.events[i].op \in ops

EventOf(r, ops) ==
    r.events[CHOOSE i \in 1..Len(r.events) : r.events[i].op \in ops]

\* a call of run(argv, next): the hooks it reaches each behave in one of
\* the ways listed above
Run ==
    /\ last.op = "none"
    /\ \E argv \in Argvs, cb \in CallbackBehaviours, ao \in AddOptionsBehaviours :
          LET h1 == [DefaultHooks(cb) EXCEPT !.addOptions = ao]
              r1 == run(commandSpecs, helpWrapWidth, argv, h1)
          IN  IF ~Reached(r1, {"parseArgs", "parseDefaultArgs"})
              THEN last' = RunRecord(argv, r1)
              ELSE \E p \in ParseBehaviours(
                              Len(EventOf(r1, {"parseArgs", "parseDefaultArgs"}).positionals)) :
                      LET h2 == [h1 EXCEPT !.parse = p]
                          r2 == run(commandSpecs, helpWrapWidth, argv, h2)
                      IN  IF ~Reached(r2, {"doCommand", "doDefaultCommand"})
                          THEN last' = RunRecord(argv, r2)
                          ELSE \E d \in DoBehaviours(
                                          EventOf(r2, {"doCommand", "doDefaultCommand"}).spec) :
                                  last' = RunRecord(argv,
                                              run(commandSpecs, helpWrapWidth, argv,
                                                  [h2 EXCEPT !.do = d]))
    /\ commandSpecs' = RegistryAfterRun(commandSpecs)
    /\ UNCHANGED <<helpWrapWidth, constructedWith, groupStarts, utilVars, flightVars>>

\* the caller, having the outcome of a run, calls run once more with the
\* same argv
RunAgain ==
    /\ last.op = "run"
    /\ ~last.pending
    /\ ~last.again
    /\ \E cb \in CallbackBehaviours :
          last' = [RunRecord(last.argv,
                             run(commandSpecs, helpWrapWidth, last.argv,
                                 DefaultHooks(cb)))
                      EXCEPT !.again = TRUE, !.first = SelectionOf(last.events)]
    /\ commandSpecs' = RegistryAfterRun(commandSpecs)
    /\ UNCHANGED <<helpWrapWidth, constructedWith, groupStarts, utilVars, flightVars>>

\* a doCommand that put off its completion calls the callback
Complete ==
    /\ last.op = "run"
    /\ last.pending
    /\ \E err \in {NoError, HookFailure} :
          last' = [last EXCEPT !.pending = FALSE,
                      !.events = Append(@, [Ev("next", "callback") EXCEPT !.err = err])]
    /\ UNCHANGED <<commandSpecs, helpWrapWidth, constructedWith, groupStarts, utilVars, flightVars>>

\* the caller has the outcome of its call and may make the next one
Return ==
    /\ last.op # "none"
    /\ ~last.pending
    /\ last' = NoCall
    /\ UNCHANGED <<commandSpecs, helpWrapWidth, constructedWith, groupStarts, utilVars, flightVars>>

Next == AddCommands \/ Run \/ RunAgain \/ Complete \/ Return

Spec == Init /\ [][Next]_vars

\* ------------------------------------------- CommandUtil.addOptions alone
\* configOptions of one run, and the contributions merged into it one
\* after the other.  swapped is what the last two contributions give when
\* merged in the other order.
InitOptions ==
    /\ RunnerIdle
    /\ merged = NoMerge
    /\ taking = NoneTaken(<<>>)
    /\ built = NotBuilt
    /\ FlightIdle

MergeOptions ==
    /\ merged.count < MaxMerges
    /\ \E from \in Contributions :
          LET r == CommandUtil_addOptions(merged.to, from)
              other == CommandUtil_addOptions(
                           CommandUtil_addOptions(merged.before, from).to,
                           merged.from)
          IN  merged' = [count |-> merged.count + 1,
                         base |-> merged.before,
                         before |-> merged.to,
                         prev |-> merged.from,
                         from |-> from,
                         fromAfter |-> r.from,
                         to |-> r.to,
                         swapped |-> other.to,
                         threw |-> merged.threw \/ r.threw]
    /\ UNCHANGED <<runnerVars, taking, built, flightVars>>

NextOptions == MergeOptions

SpecOptions == InitOptions /\ [][NextOptions]_vars

\* --------------------------------------- CommandUtil.nextNonOptionArg alone
InitArgs ==
    /\ RunnerIdle
    /\ merged = NoMerge
    /\ taking \in { NoneTaken(l) : l \in PositionalLists }
    /\ built = NotBuilt
    /\ FlightIdle

NextNonOptionArg ==
    /\ Len(taking.returned) < Len(taking.original) + MaxNullCalls
    /\ LET r == nextNonOptionArg(taking.rest)
       IN  taking' = [taking EXCEPT
                         !.rest = r.positionals,
                         !.returned = Append(@, [isNull |-> r.isNull,
                                                 value |-> r.value])]
    /\ UNCHANGED <<runnerVars, merged, built, flightVars>>

NextArgs == NextNonOptionArg

SpecArgs == InitArgs /\ [][NextArgs]_vars

\* ------------------------------------------------- new CommandSpec alone
InitCtor ==
    /\ RunnerIdle
    /\ merged = NoMerge
    /\ taking = NoneTaken(<<>>)
    /\ built = NotBuilt
    /\ FlightIdle

Construct ==
    /\ \E syntax \in SyntaxStrings :
          built' = [op |-> "new", syntax |-> syntax,
                    result |-> CommandSpecCtor(syntax, Summary),
                    entry |-> <<>>]
    /\ UNCHANGED <<runnerVars, merged, taking, flightVars>>

\* getHelpSummaryEntry(spec, rightMargin) for the spec just constructed
SummaryEntry ==
    /\ built.op = "new"
    /\ ~built.result.threw
    /\ \E option \in WidthOptions :
          built' = [built EXCEPT
                       !.op = "entry",
                       !.entry = getHelpSummaryEntry(built.result.spec,
                                                     ConstructWidth(option))]
    /\ UNCHANGED <<runnerVars, merged, taking, flightVars>>

NextCtor == Construct \/ SummaryEntry

SpecCtor == InitCtor /\ [][NextCtor]_vars

\* ------------------------------------------------ two invocations of run
\* A handler instance: the subclass it was made by, and the properties
\* _init gives it.
createCommand_shared(instances, cmd) ==
    IF instances = <<>>
    THEN [handlers |-> <<[class |-> cmd, spec |-> 0, name |-> <<>>, runner |-> FALSE]>>,
          command |-> 1]
    ELSE [handlers |-> instances, command |-> 1]

\* commandSpec.createCommand(): a new instance of the spec's handler class
createCommand(instances, cmd) ==
    [handlers |-> Append(instances,
                         [class |-> cmd, spec |-> 0, name |-> <<>>, runner |-> FALSE]),
     command |-> Len(instances) + 1]

\* command._init(this, commandSpec)
NamedCommand_init(instances, command, cmd, name) ==
    [instances EXCEPT ![command] =
        [@ EXCEPT !.spec = cmd, !.name = name, !.runner = TRUE]]

\* the argument vectors of the overlapping invocations
FlightArgvs ==
    { << <<"a">> >>, << <<"B">> >>, << <<"a">>, <<"-", "v">>, <<"B", "o">> >>,
      << <<"B">>, <<"-", "h">> >>, << <<"-", "v">> >>, << <<"B", "o">> >> }

\* what addOptions of the handler declares
FlightOptions == { b \in AddOptionsBehaviours : b.raise = NoError }

\* what doCommand does: put off its completion, or complete at once
FlightDo == {"defer", "callOk", "callErr"}

\* the calls of the callback given to this invocation that events holds
RECURSIVE ReceivedFrom(_, _, _)
ReceivedFrom(events, i, slot) ==
    IF i > Len(events) THEN <<>>
    ELSE (IF events[i].op = "next"
          THEN <<[run |-> slot, err |-> events[i].err]>> ELSE <<>>)
            \o ReceivedFrom(events, i + 1, slot)

Received(events, slot) == ReceivedFrom(events, 1, slot)

\* a runner on which addCommands was called once, before any run
InitTwoRuns ==
    /\ \E group \in Groups :
          /\ ~addCommands(<<>>, group).threw
          /\ commandSpecs = addCommands(<<>>, group).specs
          /\ groupStarts = (IF group = <<>> THEN {} ELSE {1})
    /\ constructedWith = 0
    /\ helpWrapWidth = ConstructWidth(constructedWith)
    /\ last = NoCall
    /\ merged = NoMerge
    /\ taking = NoneTaken(<<>>)
    /\ built = NotBuilt
    /\ FlightIdle

\* run(argv, next) is called; the second invocation starts while the
\* doCommand of the first has not called its callback
StartRun(slot) ==
    /\ inflight[slot].state = "idle"
    /\ slot = 2 => inflight[1].state = "pending"
    /\ \E argv \in FlightArgvs, ao \in FlightOptions, do \in FlightDo :
       \E r \in {run(commandSpecs, helpWrapWidth, argv,
                     [addOptions |-> ao, parse |-> DefaultParse, do |-> do,
                      cb |-> NoError])} :
       \E cmd \in {IF Reached(r, {"createCommand"})
                    THEN EventOf(r, {"createCommand"}).spec ELSE 0} :
       \E made \in {createCommand(handlers, cmd)} :
          /\ handlers' =
                (IF cmd # 0
                 THEN NamedCommand_init(made.handlers, made.command, cmd,
                                        commandSpecs[cmd]._name)
                 ELSE handlers)
          /\ inflight' = [inflight EXCEPT ![slot] =
                [state |-> IF r.pending THEN "pending" ELSE "done",
                 argv |-> argv,
                 from |-> ao.from,
                 command |-> IF cmd # 0 THEN made.command ELSE 0,
                 events |-> r.events,
                 received |-> Received(r.events, slot)]]
    /\ UNCHANGED <<runnerVars, utilVars>>

\* the doCommand of an invocation calls the callback it was given
CompleteRun(slot) ==
    /\ inflight[slot].state = "pending"
    /\ \E err \in {NoError, HookFailure} :
          inflight' = [inflight EXCEPT ![slot] =
              [@ EXCEPT !.state = "done",
                        !.events = Append(@, [Ev("next", "callback") EXCEPT !.err = err]),
                        !.received = Append(@, [run |-> slot, err |-> err])]]
    /\ UNCHANGED <<runnerVars, utilVars, handlers>>

NextTwoRuns == \E slot \in {1, 2} : StartRun(slot) \/ CompleteRun(slot)

SpecTwoRuns == InitTwoRuns /\ [][NextTwoRuns]_vars

\* ------------------------------------------------------------ properties
IsRun == last.op = "run"

Events == last.events

EventsAt(ops) == { i \in 1..Len(Events) : Events[i].op \in ops }

ValidationOps == {"parseArgs", "parseDefaultArgs"}

ExecutionOps == {"doCommand", "doDefaultCommand"}

OptionOps == {"addOptions", "addDefaultOptions"}

\* needle occurs in hay as a contiguous run
Contains(hay, needle) ==
    \E i \in 0..(Len(hay) - Len(needle)) :
        \A j \in 1..Len(needle) : hay[i + j] = needle[j]

\* the two strings differ at most in the case of their letters
SameLetter(c, d) ==
    \/ c = d
    \/ {c, d} \in {{"a", "A"}, {"b", "B"}, {"c", "C"}, {"o", "O"}}

CaseVariant(s, t) ==
    /\ Len(s) = Len(t)
    /\ \A i \in 1..Len(s) : SameLetter(s[i], t[i])

\* C1: when the validation hook returns normally and leaves a positional
\* in args._, the next thing run does is call the callback with an
\* UnexpectedArgError naming the first leftover positional, and it calls
\* no execution hook; so every execution hook is called with args._ empty.
C1_LeftoverRejected ==
    IsRun =>
        /\ \A i \in EventsAt(ValidationOps) :
              (~Events[i].raised /\ Len(Events[i].after) > 0) =>
                  /\ i < Len(Events)
                  /\ Events[i + 1].op = "next"
                  /\ Events[i + 1].err.kind = "UnexpectedArgError"
                  /\ Events[i + 1].err.message =
                        <<"UnexpectedArgument: \"">> \o Events[i].after[1] \o <<"\"">>
                  /\ EventsAt(ExecutionOps) = {}
        /\ \A j \in EventsAt(ExecutionOps) : Events[j].positionals = <<>>

\* a validation hook that took one of three positionals and returned,
\* leaving two different ones
C1_Witness ==
    /\ IsRun
    /\ \E i \in EventsAt(ValidationOps) :
          /\ ~Events[i].raised
          /\ Len(Events[i].positionals) = 3
          /\ Len(Events[i].after) = 2
          /\ Events[i].after[1] # Events[i].after[2]
          /\ Events[i + 1].err.kind = "UnexpectedArgError"

\* C2: when the option parser reports help, run writes help exactly once,
\* calls the callback exactly once and without an error, and calls neither
\* a validation hook nor an execution hook.
C2_HelpShortCircuit ==
    IsRun =>
        \A i \in EventsAt({"Minimist"}) :
            Events[i].help =>
                /\ Cardinality(EventsAt({"write"})) = 1
                /\ Cardinality(EventsAt({"next"})) = 1
                /\ \A j \in EventsAt({"next"}) : Events[j].err = NoError
                /\ EventsAt(ValidationOps \cup ExecutionOps) = {}

\* help asked of a named command together with a positional
C2_Witness ==
    /\ IsRun
    /\ \E i \in EventsAt({"Minimist"}) :
          /\ Events[i].help
          /\ Events[i].positionals # <<>>
          /\ EventsAt({"createCommand"}) # {}
          /\ EventsAt({"write"}) # {}

\* C3: when argv[0] is a letter-case variant of a registered spec's name,
\* run creates the command of that spec and of no other.
C3_CaseInsensitiveLookup ==
    IsRun =>
        \A k \in 1..Len(commandSpecs) :
            (Len(last.argv) > 0 /\ CaseVariant(last.argv[1], commandSpecs[k]._name)) =>
                /\ EventsAt({"createCommand"}) # {}
                /\ \A i \in EventsAt({"createCommand"}) : Events[i].spec = k

\* the second of two registered specs, named in the other letter case
C3_Witness ==
    /\ IsRun
    /\ Len(commandSpecs) = 2
    /\ Len(last.argv) > 0
    /\ last.argv[1] # commandSpecs[2]._name
    /\ CaseVariant(last.argv[1], commandSpecs[2]._name)
    /\ \E i \in EventsAt({"createCommand"}) : Events[i].spec = 2

\* a spec of the group has the normalized name of a spec registered
\* before the call or of an earlier spec of the group
GroupHasDuplicate(before, group) ==
    \E i \in 1..Len(group) :
        \/ \E p \in 1..Len(before) : before[p]._normName = group[i]._normName
        \/ \E j \in 1..(i - 1) : group[j]._normName = group[i]._normName

\* C4: addCommands throws whenever the group repeats a normalized name,
\* of a registered spec or within the group; no callback is involved.
C4_DuplicateThrows ==
    (last.op = "addCommands" /\ GroupHasDuplicate(last.before, last.group)) =>
        /\ last.outcome = "threw"
        /\ last.thrown.kind = "Error"
        /\ last.events = <<>>

\* a group of two specs with one normalized name, added to a registry
\* that holds another name
C4_Witness ==
    /\ last.op = "addCommands"
    /\ last.before # <<>>
    /\ Len(last.group) = 2
    /\ last.group[1]._normName = last.group[2]._normName
    /\ last.group[1]._name # last.group[2]._name
    /\ ~(\E p \in 1..Len(last.before) :
            last.before[p]._normName = last.group[1]._normName)
    /\ last.outcome = "threw"

\* argv[0] exists and does not begin with a dash
NamedByArgv ==
    /\ Len(last.argv) > 0
    /\ (last.argv[1] = <<>> \/ last.argv[1][1] # "-")

UsageKinds == {"CommandUsageError", "UnexpectedArgError"}

CommandErrorKinds == {"CommandError"} \cup UsageKinds

\* no registered spec has a normalized name that argv[0] normalizes to
Unregistered ==
    \A k \in 1..Len(commandSpecs) :
        ~CaseVariant(last.argv[1], commandSpecs[k]._normName)

OnlyReportsUnrecognized ==
    /\ Cardinality(EventsAt({"next"})) = 1
    /\ \A j \in EventsAt({"next"}) : Events[j].err.kind = "CommandUsageError"
    /\ EventsAt({"createCommand", "_init", "getHelp", "write"}
                    \cup OptionOps \cup ValidationOps \cup ExecutionOps) = {}

\* C5 as claimed: for an unregistered name, the callback is called once
\* with a CommandUsageError whose message contains argv[0] as supplied, and
\* no handler is created and no hook is called.
C5_Original ==
    (IsRun /\ NamedByArgv /\ Unregistered) =>
        /\ OnlyReportsUnrecognized
        /\ \A j \in EventsAt({"next"}) : Contains(Events[j].err.message, last.argv[1])

\* C5 as amended: for an unregistered name, the callback is called once
\* with a CommandUsageError whose message contains argv[0] in lower case,
\* and no handler is created and no hook is called.
C5_UnrecognizedLowerCased ==
    (IsRun /\ NamedByArgv /\ Unregistered) =>
        /\ OnlyReportsUnrecognized
        /\ \A j \in EventsAt({"next"}) :
              Contains(Events[j].err.message, toLowerCase(last.argv[1]))

\* an unregistered name with an upper-case letter, on a runner that has
\* commands
C5_Witness ==
    /\ IsRun
    /\ NamedByArgv
    /\ Unregistered
    /\ commandSpecs # <<>>
    /\ last.argv[1] = <<"B", "o">>
    /\ \E j \in EventsAt({"next"}) :
          Contains(Events[j].err.message, <<"b", "o">>)

\* the hooks and the callback kept to their contracts: the execution hook
\* calls the callback once and does not raise, the callback does not raise
ContractsHonoured ==
    /\ \A i \in EventsAt(ExecutionOps) :
          Events[i].how \in {"default", "callOk", "callErr", "defer"}
    /\ \A j \in EventsAt({"next"}) : ~Events[j].raised

\* C6: with the contracts honoured, one run calls the callback at most
\* once, and exactly once when run has returned and no completion is
\* still put off.
C6_CallbackOnce ==
    (IsRun /\ ContractsHonoured) =>
        /\ Cardinality(EventsAt({"next"})) <= 1
        /\ (last.outcome = "returned" /\ ~last.pending) =>
              Cardinality(EventsAt({"next"})) = 1

\* a run that reported a leftover positional and returned
C6_Witness ==
    /\ IsRun
    /\ ContractsHonoured
    /\ last.outcome = "returned"
    /\ \E i \in EventsAt(ValidationOps) : Len(Events[i].after) > 0
    /\ Cardinality(EventsAt({"next"})) = 1

\* the callback was called with the error the validation hook raised and
\* no execution hook was called
ForwardedVerbatim(i) ==
    /\ i < Len(Events)
    /\ Events[i + 1].op = "next"
    /\ Events[i + 1].err = Events[i].err
    /\ EventsAt(ExecutionOps) = {}

\* C7 as claimed: a usage error raised by the validation hook is passed
\* unchanged to the callback, no execution hook is called and no exception
\* leaves run.
C7_Original ==
    IsRun =>
        \A i \in EventsAt(ValidationOps) :
            (Events[i].raised /\ Events[i].err.kind \in UsageKinds) =>
                /\ ForwardedVerbatim(i)
                /\ last.outcome # "threw"

\* C7 as amended: a usage error raised by the validation hook is passed
\* unchanged to the callback and no execution hook is called; the only
\* exception that can leave run is one the callback raised.
C7_UsageErrorForwarded ==
    IsRun =>
        \A i \in EventsAt(ValidationOps) :
            (Events[i].raised /\ Events[i].err.kind \in UsageKinds) =>
                /\ ForwardedVerbatim(i)
                /\ Cardinality(EventsAt({"next"})) = 1
                /\ last.outcome = "threw" => Events[i + 1].raised

\* parseArgs took a positional and then raised a usage error; the callback
\* returned
C7_Witness ==
    /\ IsRun
    /\ last.outcome = "returned"
    /\ \E i \in EventsAt({"parseArgs"}) :
          /\ Events[i].raised
          /\ Events[i].err.kind = "CommandUsageError"
          /\ Len(Events[i].after) < Len(Events[i].positionals)
          /\ Events[i + 1].err = Events[i].err

PropagatesUncaught(i) ==
    /\ last.outcome = "threw"
    /\ last.thrown = Events[i].err
    /\ EventsAt({"next"} \cup ExecutionOps) = {}

\* C8 as claimed: a failure of option declaration or validation that is
\* not a usage error propagates out of run, and neither the callback nor
\* an execution hook is called.
C8_Original ==
    IsRun =>
        \A i \in EventsAt(OptionOps \cup ValidationOps) :
            (Events[i].raised /\ Events[i].err.kind \notin UsageKinds) =>
                PropagatesUncaught(i)

\* C8 as amended: a failure of option declaration that is not a usage
\* error, or of validation that is not a CommandError of any kind,
\* propagates out of run, and neither the callback nor an execution hook
\* is called.
C8_DefectPropagates ==
    IsRun =>
        /\ \A i \in EventsAt(OptionOps) :
              (Events[i].raised /\ Events[i].err.kind \notin UsageKinds) =>
                  PropagatesUncaught(i)
        /\ \A i \in EventsAt(ValidationOps) :
              (Events[i].raised /\ Events[i].err.kind \notin CommandErrorKinds) =>
                  PropagatesUncaught(i)

\* parseDefaultArgs raised an error that is no CommandError
C8_Witness ==
    /\ IsRun
    /\ last.outcome = "threw"
    /\ \E i \in EventsAt({"parseDefaultArgs"}) :
          /\ Events[i].raised
          /\ Events[i].err.kind = "Error"
          /\ last.thrown = Events[i].err

NamedPathOps == {"lookup", "createCommand", "_init", "addOptions", "parseArgs", "doCommand"}

DefaultPathOps == {"addDefaultOptions", "parseDefaultArgs", "doDefaultCommand"}

\* C9: run looks a command up exactly when argv[0] exists and does not
\* begin with a dash; then the parser gets argv without argv[0] and only
\* the handler's hooks are called; otherwise the parser gets all of argv,
\* nothing is looked up or created and only the runner's hooks are called.
C9_PathSelection ==
    IsRun =>
        /\ NamedByArgv =>
              /\ Events # <<>>
              /\ Events[1].op = "lookup"
              /\ \A i \in 1..Len(Events) :
                    /\ Events[i].op \notin DefaultPathOps
                    /\ Events[i].op = "getHelp" => Events[i].who = "command"
                    /\ Events[i].op = "Minimist" => Events[i].argv = Tail(last.argv)
        /\ ~NamedByArgv =>
              \A i \in 1..Len(Events) :
                  /\ Events[i].op \notin NamedPathOps
                  /\ Events[i].op = "getHelp" => Events[i].who = "runner"
                  /\ Events[i].op = "Minimist" => Events[i].argv = last.argv

\* an argv that begins with an option went down the default path to
\* doDefaultCommand although commands are registered
C9_Witness ==
    /\ IsRun
    /\ commandSpecs # <<>>
    /\ Len(last.argv) = 2
    /\ last.argv[1] = <<"-", "v">>
    /\ EventsAt({"doDefaultCommand"}) # {}
    /\ \E i \in EventsAt({"Minimist"}) : Events[i].argv = last.argv

\* no hook of the run was overridden
NoOverrides ==
    \A i \in EventsAt(OptionOps \cup ValidationOps \cup ExecutionOps) :
        Events[i].how = "default"

\* C10: the base doDefaultCommand calls the callback exactly once, with a
\* usage error "Missing command argument" when commands are registered and
\* with a plain Error otherwise; run([]) with no commands and no overrides
\* ends with that plain Error.
C10_DefaultCommand ==
    IsRun =>
        /\ \A i \in EventsAt({"doDefaultCommand"}) :
              Events[i].how = "default" =>
                  /\ Len(Events) = i + 1
                  /\ Events[i + 1].op = "next"
                  /\ IF Len(commandSpecs) > 0
                     THEN /\ Events[i + 1].err.kind = "CommandUsageError"
                          /\ Events[i + 1].err.message = <<"Missing command argument">>
                     ELSE /\ Events[i + 1].err.kind = "Error"
                          /\ Events[i + 1].err.kind \notin CommandErrorKinds
        /\ (last.argv = <<>> /\ commandSpecs = <<>> /\ NoOverrides) =>
              /\ Cardinality(EventsAt({"next"})) = 1
              /\ Events[Len(Events)].op = "next"
              /\ Events[Len(Events)].err.kind = "Error"

\* run([]) on a runner without commands and without overrides
C10_Witness ==
    /\ IsRun
    /\ last.argv = <<>>
    /\ commandSpecs = <<>>
    /\ NoOverrides
    /\ EventsAt({"doDefaultCommand"}) # {}
    /\ Events[Len(Events)].err.kind = "Error"

\* ------------------------------------------- properties of addOptions
\* the settings of configuration a are all settings of configuration b
SettingsWithin(a, b) ==
    /\ a.alias \subseteq b.alias
    /\ SeqToSet(a.boolean) \subseteq SeqToSet(b.boolean)
    /\ SeqToSet(a.string) \subseteq SeqToSet(b.string)
    /\ a.default \subseteq b.default

\* C11: addOptions is additive: every alias mapping, boolean name, string
\* name and default value the target held before the call it still holds,
\* with the same value, after the call.
C11_Additive ==
    merged.count > 0 => SettingsWithin(merged.before, merged.to)

\* the preloaded alias h -> help is gone after a contribution that maps h
C11_AliasLost ==
    /\ merged.count = 1
    /\ <<Key_h, Key_help>> \in merged.before.alias
    /\ <<Key_h, Key_help>> \notin merged.to.alias
    /\ <<Key_h, Key_x>> \in merged.from.alias

\* C12: after addOptions every setting of fromOptions, under every key, is
\* a setting of toOptions, and fromOptions is as it was.
C12_AllContributed ==
    merged.count > 0 =>
        /\ SettingsWithin(merged.from, merged.to)
        /\ merged.from.other \subseteq merged.to.other
        /\ merged.fromAfter = merged.from

\* a contribution under a key other than alias, boolean, default and
\* string has not reached the target
C12_OtherKeyLost ==
    /\ merged.count > 0
    /\ <<Key_stopEarly, <<"true">>>> \in merged.from.other
    /\ merged.to.other = {}

\* the two configurations hold the same settings
SameSettings(a, b) == SettingsWithin(a, b) /\ SettingsWithin(b, a)

\* C13: merging is commutative: two contributions merged in either order
\* give the same aliases, boolean names, string names and defaults.
C13_Commutative ==
    merged.count >= 2 => SameSettings(merged.to, merged.swapped)

\* two contributions that give the same default key different values
C13_OrderShows ==
    /\ merged.count = 2
    /\ merged.prev.default # {}
    /\ merged.from.default # {}
    /\ merged.to.default # merged.swapped.default

\* the flag names that the last two contributions both declare
SharedNames(a, b) == SeqToSet(a) \cap SeqToSet(b)

\* the names of the target are those it held before the last contribution
\* and those of the contribution that its predecessor did not declare
DeclaredOnce(prev, from, before, to) ==
    LET shared == SharedNames(prev, from)
    IN  shared # {} =>
            /\ ~merged.threw
            /\ shared \subseteq SeqToSet(to)
            /\ SeqToSet(to) = SeqToSet(before) \cup (SeqToSet(from) \ shared)

\* C14: two contributions that declare the same boolean (or string) flag
\* raise no error, the flag is declared in the result, and the set of flag
\* names is the one a single declaration gives; merging one contribution
\* twice gives the set of names that merging it once gives.
C14_SameFlagTwice ==
    merged.count >= 2 =>
        /\ DeclaredOnce(merged.prev.boolean, merged.from.boolean,
                        merged.before.boolean, merged.to.boolean)
        /\ DeclaredOnce(merged.prev.string, merged.from.string,
                        merged.before.string, merged.to.string)
        /\ merged.prev = merged.from =>
              /\ SeqToSet(merged.to.boolean) = SeqToSet(merged.before.boolean)
              /\ SeqToSet(merged.to.string) = SeqToSet(merged.before.string)

\* the array of names holds no name twice
NoDuplicateEntry(names) == Cardinality(SeqToSet(names)) = Len(names)

\* C14 as stated: as above, and the merged arrays of flag names hold no
\* duplicate entry.
C14_Original ==
    /\ C14_SameFlagTwice
    /\ merged.count >= 2 =>
          /\ SharedNames(merged.prev.boolean, merged.from.boolean) # {}
                => NoDuplicateEntry(merged.to.boolean)
          /\ SharedNames(merged.prev.string, merged.from.string) # {}
                => NoDuplicateEntry(merged.to.string)

\* the contribution that declares boolean v and string s was merged twice
C14_Witness ==
    /\ merged.count = 2
    /\ merged.prev = merged.from
    /\ Key_v \in SeqToSet(merged.from.boolean)
    /\ Key_s \in SeqToSet(merged.from.string)
    /\ Key_v \in SeqToSet(merged.to.boolean)
    /\ Key_s \in SeqToSet(merged.to.string)

\* --------------------------------- properties of the CommandSpec constructor
\* the position of the first character of s that is not a delimiter, or 0
FirstNonDelimiter(s, delimiters) ==
    IF \A k \in 1..Len(s) : s[k] \in delimiters THEN 0
    ELSE CHOOSE i \in 1..Len(s) :
            /\ s[i] \notin delimiters
            /\ \A k \in 1..(i - 1) : s[k] \in delimiters

\* name is the first token of s: the characters from the first one that
\* is not a delimiter up to the next delimiter or the end of s
IsFirstToken(s, name, delimiters) ==
    LET i == FirstNonDelimiter(s, delimiters)
        j == i + Len(name) - 1
    IN  /\ i # 0
        /\ Len(name) >= 1
        /\ j <= Len(s)
        /\ name = SubSeq(s, i, j)
        /\ \A k \in i..j : s[k] \notin delimiters
        /\ j < Len(s) => s[j + 1] \in delimiters

UpperCaseLetters == {"A", "B", "C", "O"}

\* folded is name with its upper-case letters replaced by lower-case ones
CaseFolded(name, folded) ==
    /\ CaseVariant(name, folded)
    /\ \A i \in 1..Len(folded) : folded[i] \notin UpperCaseLetters

\* the constructor throws exactly when the syntax has no token or its
\* first token begins with a dash; otherwise the name is the first token
\* and the normalized name is the name case-folded
ConstructorContract(delimiters) ==
    built.op = "new" =>
        LET s == built.syntax
            i == FirstNonDelimiter(s, delimiters)
            spec == built.result.spec
        IN  /\ built.result.threw <=> (i = 0 \/ s[i] = "-")
            /\ ~built.result.threw =>
                  /\ IsFirstToken(s, spec._name, delimiters)
                  /\ spec._name # <<>>
                  /\ spec._name[1] # "-"
                  /\ CaseFolded(spec._name, spec._normName)

\* C15 as stated: tokens are delimited by whitespace (space, tab).
C15_Original == ConstructorContract({" ", "\t"})

\* C15: constructing a CommandSpec throws exactly when the syntax holds no
\* name token or the name begins with a dash; otherwise the name is the
\* first token of the syntax, tokens being delimited by space characters
\* only, it is non-empty and does not begin with a dash, and the
\* normalized name is the name case-folded.
C15_SpaceDelimitedName == ConstructorContract({" "})

\* a syntax with a leading space, a name in upper case and a trailing space
C15_Witness ==
    /\ built.op = "new"
    /\ built.syntax = <<" ", "B", " ">>
    /\ ~built.result.threw
    /\ built.result.spec._name = <<"B">>
    /\ built.result.spec._normName = <<"b">>

\* ------------------------------------------- properties of the registry
\* no two registered specs have the same normalized name
DistinctNormNames ==
    \A p, q \in 1..Len(commandSpecs) :
        p # q => commandSpecs[p]._normName # commandSpecs[q]._normName

\* every spec registered before the step is registered after it, at the
\* same position
RegistryGrows ==
    /\ Len(commandSpecs') >= Len(commandSpecs)
    /\ \A p \in 1..Len(commandSpecs) : commandSpecs'[p] = commandSpecs[p]

\* C16: in every reachable state the normalized names of the registered
\* specs are pairwise distinct, and no step (addCommands that succeeds or
\* throws, run) removes or moves a registered spec.
C16_RegistryInvariant ==
    [] DistinctNormNames /\ [][RegistryGrows]_vars

\* a group whose second spec repeats a name was added to a registry that
\* held a spec: the call threw, and the registry holds both its old spec
\* and the first spec of the group
C16_Witness ==
    /\ last.op = "addCommands"
    /\ last.outcome = "threw"
    /\ Len(last.before) = 1
    /\ Len(last.group) = 2
    /\ Len(commandSpecs) = 2
    /\ commandSpecs[1] = last.before[1]
    /\ commandSpecs[1]._normName # commandSpecs[2]._normName

\* -------------------------------------- properties of nextNonOptionArg
\* C17: nextNonOptionArg returns null and leaves args._ as it is when
\* args._ is empty; otherwise it returns args._[0] and removes exactly that
\* element.  So the calls made on a list of n positionals return them in
\* order, the list is empty after n calls and every later call returns
\* null.
C17_TakesInOrder ==
    LET n == Len(taking.original)
        k == Len(taking.returned)
        taken == IF k < n THEN k ELSE n
    IN  /\ \A i \in 1..k :
              IF i <= n
              THEN /\ ~taking.returned[i].isNull
                   /\ taking.returned[i].value = taking.original[i]
              ELSE taking.returned[i].isNull
        /\ taking.rest = SubSeq(taking.original, taken + 1, n)

\* three different positionals were taken, and two more calls were made
C17_Witness ==
    /\ taking.original = << <<"B", "o">>, <<"0", "1">>, <<>> >>
    /\ Len(taking.returned) = 5
    /\ taking.returned[1].value = <<"B", "o">>
    /\ taking.returned[2].value = <<"0", "1">>
    /\ ~taking.returned[3].isNull
    /\ taking.returned[4].isNull
    /\ taking.returned[5].isNull
    /\ taking.rest = <<>>

\* ----------------------------------------------- properties of the paths
\* C18: on the default path args._ is empty whenever parseDefaultArgs is
\* called.
C18_DefaultArgsEmpty ==
    IsRun =>
        \A i \in EventsAt({"parseDefaultArgs"}) : Events[i].positionals = <<>>

\* run(["--", "Bo"]): parseDefaultArgs was called with args._ = ["Bo"]
C18_DefaultArgsLeft ==
    /\ IsRun
    /\ last.argv = << <<"-", "-">>, <<"B", "o">> >>
    /\ \E i \in EventsAt({"parseDefaultArgs"}) :
          Events[i].positionals = << <<"B", "o">> >>

\* the place of a call in the order of the named path; 0 for the calls
\* that are not hooks of the named path
HookRank(op) ==
    CASE op = "createCommand" -> 1
      [] op = "_init" -> 2
      [] op = "addOptions" -> 3
      [] op = "Minimist" -> 4
      [] op = "parseArgs" -> 5
      [] op = "doCommand" -> 6
      [] OTHER -> 0

C20_HelpAtConfiguredWidth ==
    /\ helpWrapWidth = (IF constructedWith = 0 THEN 80 ELSE constructedWith)
    /\ IsRun =>
          \A i \in EventsAt({"Minimist"}) :
              Events[i].help =>
                  /\ Len(Events) = i + 3
                  /\ Events[i + 1].op = "getHelp"
                  /\ Events[i + 1].width = helpWrapWidth
                  /\ IF NamedByArgv
                     THEN /\ Events[i + 1].who = "command"
                          /\ Events[i + 1].spec = Events[2].spec
                          /\ Events[i + 1].text =
                                getHelpSummaryEntry(commandSpecs[Events[2].spec],
                                                    helpWrapWidth)
                     ELSE /\ Events[i + 1].who = "runner"
                          /\ Events[i + 1].text = getHelp(commandSpecs, helpWrapWidth)
                  /\ Events[i + 2].op = "write"
                  /\ Events[i + 2].width = helpWrapWidth
                  /\ Events[i + 2].text = WrapText(Events[i + 1].text, helpWrapWidth)

\* a runner constructed with helpWrapWidth 40 wrote the help of a command
C20_Witness ==
    /\ IsRun
    /\ constructedWith = 40
    /\ helpWrapWidth = 40
    /\ last.argv = << <<"a">>, <<"-", "h">> >>
    /\ \E i \in EventsAt({"write"}) :
          /\ Events[i].width = 40
          /\ Events[i - 1].op = "getHelp"
          /\ Events[i - 1].who = "command"
          /\ Events[i].text = WrapText(Events[i - 1].text, 40)

\* ------------------------------------------- properties of aggregate help
\* the summary entries of the registered specs from position p on, with a
\* blank line before each spec that was the first of its group
RECURSIVE EntriesFrom(_)
EntriesFrom(p) ==
    IF p > Len(commandSpecs) THEN <<>>
    ELSE (IF p \in groupStarts THEN <<"\n">> ELSE <<>>)
            \o getHelpSummaryEntry(commandSpecs[p], helpWrapWidth)
            \o EntriesFrom(p + 1)

\* introduction, entries in registration order, trailer
HelpLayout ==
    <<"This tool supports the following commands:\n">>
        \o EntriesFrom(1) \o <<"\n">>

\* C21 as stated: for every registry state getHelp returns the layout.
C21_Original ==
    getHelp(commandSpecs, helpWrapWidth) = HelpLayout

\* C21: for every registry state that holds a spec, getHelp returns the
\* introduction, then one summary entry per registered spec in
\* registration order with a blank separator line before exactly the specs
\* that were the first element of the group of an addCommands call, then
\* the trailer; for the empty registry it returns "Help is not available."
C21_AggregateHelpLayout ==
    getHelp(commandSpecs, helpWrapWidth) =
        (IF commandSpecs = <<>> THEN <<"Help is not available.">> ELSE HelpLayout)

\* two specs registered by one call: the second has no separator
C21_Witness ==
    /\ Len(commandSpecs) = 2
    /\ groupStarts = {1}
    /\ getHelp(commandSpecs, helpWrapWidth) =
          <<"This tool supports the following commands:\n", "\n">>
              \o getHelpSummaryEntry(commandSpecs[1], helpWrapWidth)
              \o getHelpSummaryEntry(commandSpecs[2], helpWrapWidth)
              \o <<"\n">>

\* --------------------------------------- properties of the summary entry
\* the text up to its first line break
FirstLine(text) ==
    IF \A k \in 1..Len(text) : text[k] # "\n" THEN text
    ELSE SubSeq(text, 1,
                (CHOOSE k \in 1..Len(text) :
                    /\ text[k] = "\n"
                    /\ \A j \in 1..(k - 1) : text[j] # "\n") - 1)

\* the part of the syntax string that comes after the name
AfterName(syntax, name) ==
    SubSeq(syntax, FirstNonDelimiter(syntax, {" "}) + Len(name), Len(syntax))

\* C22: for every CommandSpec that was constructed, the first line of
\* getHelpSummaryEntry is the name in upper case followed by exactly the
\* part of the syntax string that comes after the name, also when the
\* syntax string has spaces before the name.
C22_EntryFirstLine ==
    built.op = "entry" =>
        FirstLine(built.entry) =
            toUpperCase(built.result.spec._name)
                \o AfterName(built.syntax, built.result.spec._name)

\* the entry of new CommandSpec(" B", ...) begins with the line "BB"
C22_NameRepeated ==
    /\ built.op = "entry"
    /\ built.syntax = <<" ", "B">>
    /\ built.result.spec._name = <<"B">>
    /\ FirstLine(built.entry) = <<"B", "B">>

\* ------------------------------------- properties of a failing addCommands
\* C23 as stated: when addCommands throws, the registry and the
\* first-of-group flags are as they were before the call.
C23_AllOrNothing ==
    (last.op = "addCommands" /\ last.outcome = "threw") =>
        commandSpecs = last.before

\* the first k specs of the group, as addCommands pushes them
Pushed(group, k) ==
    [i \in 1..k |-> [group[i] EXCEPT !._firstOfGroup = (i = 1)]]

\* C23: when addCommands throws because of a duplicate name, the specs
\* of the group that precede the first duplicate have been appended (the
\* first of them flagged as first of its group) and nothing else about the
\* registry has changed; a call that returns has appended the whole group.
C23_AppendedUpToDuplicate ==
    last.op = "addCommands" =>
        IF last.outcome = "threw"
        THEN \E k \in 0..(Len(last.group) - 1) :
                /\ commandSpecs = last.before \o Pushed(last.group, k)
                /\ \E p \in 1..Len(commandSpecs) :
                      commandSpecs[p]._normName = last.group[k + 1]._normName
        ELSE commandSpecs = last.before \o Pushed(last.group, Len(last.group))

\* a group whose second spec repeats a registered name: the call threw
\* and the first spec of the group stays registered
C23_Witness ==
    /\ last.op = "addCommands"
    /\ last.outcome = "threw"
    /\ Len(last.before) = 1
    /\ Len(last.group) = 2
    /\ last.group[2]._normName = last.before[1]._normName
    /\ Len(commandSpecs) = 2
    /\ commandSpecs[2]._normName = last.group[1]._normName
    /\ commandSpecs[2]._firstOfGroup

\* --------------------------------------- properties of a raising callback
\* C24: run does not call the callback a second time when the callback
\* raises: the error the callback raises, while it is called for a
\* leftover positional or for a validation error, leaves run and is not
\* handed back to the callback.
C24_RaisingCallbackNotRecalled ==
    IsRun =>
        \A j \in EventsAt({"next"}) :
            (Events[j].raised /\ Events[j - 1].op \in ValidationOps) =>
                /\ j = Len(Events)
                /\ last.outcome = "threw"

\* the callback, called with the UnexpectedArgError, raised a
\* CommandError and was called again, with its own error
C24_CalledAgain ==
    /\ IsRun
    /\ Len(Events) >= 3
    /\ Events[Len(Events) - 2].op \in ValidationOps
    /\ Events[Len(Events) - 1].op = "next"
    /\ Events[Len(Events) - 1].err.kind = "UnexpectedArgError"
    /\ Events[Len(Events) - 1].raised
    /\ Events[Len(Events)].op = "next"
    /\ Events[Len(Events)].err = CommandError(<<"callback failed">>)

\* ------------------------------------------------- properties of the frame
\* a step in which run is called or a run completes leaves the registry,
\* the fields of every spec and the help-wrap width as they were
RunKeepsState ==
    last'.op = "run" =>
        /\ commandSpecs' = commandSpecs
        /\ helpWrapWidth' = helpWrapWidth

CreatedIn(slot) ==
    { i \in 1..Len(inflight[slot].events) :
        inflight[slot].events[i].op = "createCommand" }

HandlerCalls(slot) ==
    { i \in 1..Len(inflight[slot].events) :
        inflight[slot].events[i].who = "command" }

\* the positionals minimist gives for what the invocation passed, under the
\* configuration made of the literal and the invocation's own addOptions
OwnPositionals(slot) ==
    LET f == inflight[slot]
        passed == IF f.command # 0 THEN Tail(f.argv) ELSE f.argv
        args == Minimist(passed, CommandUtil_addOptions(BaseConfig, f.from).to)
    IN  [i \in 1..Len(args.positionals) |-> StringOf(args.positionals[i])]

OwnHandler(slot) ==
    LET f == inflight[slot]
        found == NamesCommand(f.argv)
                    /\ FindSpec(commandSpecs, toLowerCase(f.argv[1])) # 0
    IN  /\ found <=> CreatedIn(slot) # {}
        /\ Cardinality(CreatedIn(slot)) <= 1
        /\ CreatedIn(slot) = {} => f.command = 0 /\ HandlerCalls(slot) = {}
        /\ \A c \in CreatedIn(slot) :
              /\ f.command \in 1..Len(handlers)
              /\ handlers[f.command] =
                    [class |-> f.events[c].spec, spec |-> f.events[c].spec,
                     name |-> commandSpecs[f.events[c].spec]._name,
                     runner |-> TRUE]
              /\ \A i \in HandlerCalls(slot) :
                    i > c /\ f.events[i].spec = f.events[c].spec
              /\ \A other \in {1, 2} \ {slot} :
                    inflight[other].command # f.command

OwnOutcome(slot) ==
    LET f == inflight[slot]
    IN  /\ Len(f.received) <= 1
        /\ f.state = "pending" => f.received = <<>>
        /\ f.state = "done" /\ f.received # <<>> =>
              /\ f.received[1].run = slot
              /\ f.events[Len(f.events)].op = "next"
              /\ f.received[1].err = f.events[Len(f.events)].err
        /\ \A i \in 1..Len(f.events) :
              f.events[i].op = "Minimist" =>
                  f.events[i].positionals = OwnPositionals(slot)

\* C26: a run that finds its spec calls createCommand once and calls
\* addOptions, getHelp, parseArgs and doCommand on the instance it returned
\* and on no other; when a second run starts while the doCommand of the
\* first has not called its callback, each run parses under its own option
\* configuration, is bound to its own handler, and each callback is called
\* with the outcome of its own run only.
C26_OwnHandlerPerRun ==
    \A slot \in {1, 2} :
        inflight[slot].state # "idle" => OwnHandler(slot) /\ OwnOutcome(slot)

\* the first run waits in doCommand, having declared the boolean v; the
\* second ran another command to its end without declaring it
C26_Witness ==
    /\ inflight[1].state = "pending"
    /\ inflight[2].state = "done"
    /\ inflight[1].command = 1
    /\ inflight[2].command = 2
    /\ handlers[1].spec # handlers[2].spec
    /\ inflight[1].from # inflight[2].from
    /\ inflight[1].received = <<>>
    /\ inflight[2].received # <<>>
    /\ \E i \in 1..Len(inflight[2].events) :
          inflight[2].events[i].op = "doCommand"

====
